---- MODULE Spec2Model ----
(***************************************************************************)
(* The browser-facing control layer of the authentication service: the     *)
(* typed routes of crates/router/src/endpoints.rs, the post-authentication *)
(* continuation carried through /login, /reauth and /register, and the     *)
(* browser-session read model of crates/graphql/src/model/                 *)
(* browser_sessions.rs.                                                    *)
(*                                                                         *)
(* A string is a sequence of tokens.  The tokens are the single characters *)
(* that carry structure ("/", "?", "#", "&", "=", "-", "+", " ", the       *)
(* digits, the escape "%2B") and the fixed words of the route table        *)
(* ("login", "next", "continue_authorization_grant", ...).                 *)
(***************************************************************************)
EXTENDS Integers, Sequences, FiniteSets, TLC

\* ---------------------------------------------------------------- bounds

\* Width of the grant id's integer type in the model.  The code's type is
\* i64; the model keeps the two's-complement shape (MinInt = -MaxInt - 1)
\* at a width whose values TLC's integers hold.
IntBits == 16

\* The clock runs from 0 to MaxTime.
MaxTime == 2

\* The longest verification code, in tokens.
MaxCodeLen == 2

\* Browser sessions created in one behaviour.
MaxSessions == 2

\* Authentication events recorded on one session.
MaxAuths == 2

\* ------------------------------------------------------- option, result

None == [tag |-> "None"]

Some(x) == [tag |-> "Some", value |-> x]

Ok(x) == [tag |-> "Ok", value |-> x]

Err(e) == [tag |-> "Err", error |-> e]

\* ------------------------------------------------------------- integers

RECURSIVE Pow2(_)
Pow2(n) == IF n = 0 THEN 1 ELSE 2 * Pow2(n - 1)

MinInt == -Pow2(IntBits - 1)

MaxInt == Pow2(IntBits - 1) - 1

InRange(n) == MinInt <= n /\ n <= MaxInt

DigitChars == <<"0", "1", "2", "3", "4", "5", "6", "7", "8", "9">>

IsDigit(c) == \E i \in 1..10 : DigitChars[i] = c

DigitValue(c) == CHOOSE d \in 0..9 : DigitChars[d + 1] = c

\* The decimal digits of an unsigned magnitude, most significant first.
RECURSIVE Digits(_)
Digits(n) ==
    IF n < 10 THEN <<DigitChars[n + 1]>>
    ELSE Digits(n \div 10) \o <<DigitChars[(n % 10) + 1]>>

\* Display for the signed integer: the magnitude is taken in the unsigned
\* type of the same width ((!n).wrapping_add(1) for a negative n), and a
\* "-" is put before the digits of a negative number.
I64ToString(n) ==
    LET modulus == 2 * Pow2(IntBits - 1)
        magnitude == IF n >= 0 THEN n
                     ELSE (modulus - ((n + modulus) % modulus)) % modulus
    IN  IF n >= 0 THEN Digits(magnitude) ELSE <<"-">> \o Digits(magnitude)

\* checked_mul(10) then checked_add / checked_sub of each digit.
RECURSIVE ParseDigits(_, _, _)
ParseDigits(digits, acc, positive) ==
    IF digits = <<>> THEN Ok(acc)
    ELSE IF ~IsDigit(Head(digits)) THEN Err("InvalidDigit")
    ELSE LET mul == acc * 10
             d == DigitValue(Head(digits))
             r == IF positive THEN mul + d ELSE mul - d
         IN  IF ~InRange(mul) \/ ~InRange(r)
             THEN Err(IF positive THEN "PosOverflow" ELSE "NegOverflow")
             ELSE ParseDigits(Tail(digits), r, positive)

\* A parser that reads the magnitude as a positive number and negates it.
I64FromStr_NegateAfter(s) ==
    IF s = <<>> THEN Err("Empty")
    ELSE IF s = <<"+">> \/ s = <<"-">> THEN Err("InvalidDigit")
    ELSE IF Head(s) = "+" THEN ParseDigits(Tail(s), 0, TRUE)
    ELSE IF Head(s) = "-"
    THEN LET magnitude == ParseDigits(Tail(s), 0, TRUE)
         IN  IF magnitude.tag = "Ok" THEN Ok(-magnitude.value) ELSE magnitude
    ELSE ParseDigits(s, 0, TRUE)

\* FromStr for the signed integer, radix 10.
I64FromStr(s) ==
    IF s = <<>> THEN Err("Empty")
    ELSE IF s = <<"+">> \/ s = <<"-">> THEN Err("InvalidDigit")
    ELSE IF Head(s) = "+" THEN ParseDigits(Tail(s), 0, TRUE)
    ELSE IF Head(s) = "-" THEN ParseDigits(Tail(s), 0, FALSE)
    ELSE ParseDigits(s, 0, TRUE)

\* ------------------------------------------------- continuation actions

ContinueAuthorizationGrantAction(data) ==
    [next |-> "continue_authorization_grant", data |-> data]

ChangePassword == [next |-> "change_password"]

\* PostAuthAction::continue_grant
continue_grant(data) == ContinueAuthorizationGrantAction(data)

\* -------------------------------------------------------- query encoding

\* The index of the first occurrence of sep in s, 0 when there is none.
FirstIndex(s, sep) ==
    IF \E i \in 1..Len(s) : s[i] = sep
    THEN CHOOSE i \in 1..Len(s) : s[i] = sep /\ \A j \in 1..(i - 1) : s[j] # sep
    ELSE 0

RECURSIVE SplitOn(_, _)
SplitOn(s, sep) ==
    LET i == FirstIndex(s, sep)
    IN  IF i = 0 THEN <<s>>
        ELSE <<SubSeq(s, 1, i - 1)>> \o SplitOn(SubSeq(s, i + 1, Len(s)), sep)

\* Percent-decoding of one form-urlencoded token: "+" is a space, "%2B" a
\* plus sign.
UrlDecodeToken(c) == IF c = "+" THEN " " ELSE IF c = "%2B" THEN "+" ELSE c

UrlDecode(s) == [i \in 1..Len(s) |-> UrlDecodeToken(s[i])]

\* One "key=value" piece of a query: split at the first "=".
ParsePair(piece) ==
    LET i == FirstIndex(piece, "=")
    IN  IF i = 0 THEN [key |-> UrlDecode(piece), value |-> <<>>]
        ELSE [key |-> UrlDecode(SubSeq(piece, 1, i - 1)),
              value |-> UrlDecode(SubSeq(piece, i + 1, Len(piece)))]

\* The pairs of a query string, in order; empty pieces are skipped.
ParseQuery(q) ==
    LET pieces == SplitOn(q, "&")
        kept == SelectSeq(pieces, LAMBDA p : p # <<>>)
    IN  [i \in 1..Len(kept) |-> ParsePair(kept[i])]

ValuesOf(pairs, key) ==
    LET hits == SelectSeq(pairs, LAMBDA p : p.key = <<key>>)
    IN  [i \in 1..Len(hits) |-> hits[i].value]

\* A `data` field that falls back to the default when it does not parse.
DeserializeData_OrDefault(value) ==
    IF I64FromStr(value).tag = "Ok" THEN I64FromStr(value) ELSE Ok(0)

\* serde_with::rust::display_fromstr::deserialize on the `data` field.
DeserializeData(value) == I64FromStr(value)

\* Serialize for PostAuthAction (tag = "next", rename_all = "snake_case"),
\* as a query string: the tag first, then the variant's fields.
Encode(action) ==
    IF action.next = "continue_authorization_grant"
    THEN <<"next", "=", "continue_authorization_grant", "&", "data", "=">>
         \o I64ToString(action.data)
    ELSE <<"next", "=", "change_password">>

\* Deserialize for PostAuthAction from a query string: the tag `next`
\* selects the variant wherever it stands; ContinueAuthorizationGrant needs
\* exactly one `data` field, parsed from its string form; other fields are
\* ignored.
Decode(q) ==
    LET pairs == ParseQuery(q)
        tags == ValuesOf(pairs, "next")
        datas == ValuesOf(pairs, "data")
    IN  IF Len(tags) = 0 THEN Err("missing field next")
        ELSE IF Len(tags) > 1 THEN Err("duplicate field next")
        ELSE IF tags[1] = <<"change_password">> THEN Ok(ChangePassword)
        ELSE IF tags[1] = <<"continue_authorization_grant">>
        THEN IF Len(datas) = 0 THEN Err("missing field data")
             ELSE IF Len(datas) > 1 THEN Err("duplicate field data")
             ELSE LET parsed == DeserializeData(datas[1])
                  IN  IF parsed.tag = "Ok"
                      THEN Ok(ContinueAuthorizationGrantAction(parsed.value))
                      ELSE Err(parsed.error)
        ELSE Err("unknown variant")

\* ---------------------------------------------------------------- routes

Index == [route |-> "Index"]

Account == [route |-> "Account"]

AccountPassword == [route |-> "AccountPassword"]

ContinueAuthorizationGrant(id) == [route |-> "ContinueAuthorizationGrant", id |-> id]

Consent(id) == [route |-> "Consent", id |-> id]

VerifyEmail(code) == [route |-> "VerifyEmail", code |-> code]

\* Login, Reauth and Register: each carries an optional PostAuthAction.
Login(post_auth_action) == [route |-> "Login", post_auth_action |-> post_auth_action]

Reauth(post_auth_action) == [route |-> "Reauth", post_auth_action |-> post_auth_action]

Register(post_auth_action) ==
    [route |-> "Register", post_auth_action |-> post_auth_action]

Login_and_then(action) == Login(Some(action))

Login_and_continue_grant(data) == Login(Some(continue_grant(data)))

Reauth_and_then(action) == Reauth(Some(action))

Reauth_and_continue_grant(data) == Reauth(Some(continue_grant(data)))

Register_and_then(action) == Register(Some(action))

Register_and_continue_grant(data) == Register(Some(continue_grant(data)))

\* Route::path: the constant of a simple route, the route() of Login, Reauth
\* and Register, and the format!() of the parameterized routes, which puts
\* the parameter's Display form after the prefix as it is.
Path(r) ==
    CASE r.route = "Index" -> <<"/">>
      [] r.route = "Account" -> <<"/", "account">>
      [] r.route = "AccountPassword" -> <<"/", "account", "/", "password">>
      [] r.route = "Login" -> <<"/", "login">>
      [] r.route = "Reauth" -> <<"/", "reauth">>
      [] r.route = "Register" -> <<"/", "register">>
      [] r.route = "VerifyEmail" -> <<"/", "verify", "/">> \o r.code
      [] r.route = "ContinueAuthorizationGrant" ->
            <<"/", "authorize", "/">> \o I64ToString(r.id)
      [] r.route = "Consent" -> <<"/", "consent", "/">> \o I64ToString(r.id)

\* Route::query: the post auth action of Login, Reauth and Register; the
\* other routes have the unit query and the default, which is none.
Query(r) ==
    IF r.route \in {"Login", "Reauth", "Register"} THEN r.post_auth_action ELSE None

\* Route::relative_url: the path, and "?" and the encoded query when the
\* route carries one.
RelativeUrl(r) ==
    IF Query(r).tag = "Some"
    THEN Path(r) \o <<"?">> \o Encode(Query(r).value)
    ELSE Path(r)

\* Route::go: a redirect to the relative URL.
Go(r) == RelativeUrl(r)

\* A dispatcher that sends the password change to the account page.
PostAuthAction_go_next_ToAccount(action) ==
    IF action.next = "continue_authorization_grant"
    THEN Go(ContinueAuthorizationGrant(action.data))
    ELSE Go(Account)

\* PostAuthAction::go_next
PostAuthAction_go_next(action) ==
    IF action.next = "continue_authorization_grant"
    THEN Go(ContinueAuthorizationGrant(action.data))
    ELSE Go(AccountPassword)

\* A login that forgets its continuation.
Login_go_next_AlwaysIndex(self) == Go(Index)

\* Login::go_next
Login_go_next(self) ==
    IF self.post_auth_action.tag = "Some"
    THEN PostAuthAction_go_next(self.post_auth_action.value)
    ELSE Go(Index)

\* Reauth::go_next
Reauth_go_next(self) ==
    IF self.post_auth_action.tag = "Some"
    THEN PostAuthAction_go_next(self.post_auth_action.value)
    ELSE Go(Index)

\* A registration that forgets its continuation.
Register_go_next_AlwaysIndex(self) == Go(Index)

\* Register::go_next
Register_go_next(self) ==
    IF self.post_auth_action.tag = "Some"
    THEN PostAuthAction_go_next(self.post_auth_action.value)
    ELSE Go(Index)

\* The go_next of whichever interactive endpoint the value is.
GoNext(self) ==
    CASE self.route = "Login" -> Login_go_next(self)
      [] self.route = "Reauth" -> Reauth_go_next(self)
      [] self.route = "Register" -> Register_go_next(self)

\* ------------------------------------------------------ request decoding

\* The path of a URL: what stands before the first "?".
UrlPath(url) ==
    LET i == FirstIndex(url, "?")
    IN  IF i = 0 THEN url ELSE SubSeq(url, 1, i - 1)

\* The raw query of a URL: what stands after the first "?", empty when
\* there is none.
UrlQuery(url) ==
    LET i == FirstIndex(url, "?")
    IN  IF i = 0 THEN <<>> ELSE SubSeq(url, i + 1, Len(url))

\* The query extractor of the interactive endpoints: an optional
\* continuation, none when the query is absent or does not parse.
DecodeOptional(q) ==
    LET decoded == Decode(q)
    IN  IF decoded.tag = "Ok" THEN Some(decoded.value) ELSE None

\* impl From<Option<PostAuthAction>> for Login
Login_from(post_auth_action) == Login(post_auth_action)

\* impl From<Option<PostAuthAction>> for Reauth
Reauth_from(post_auth_action) == Reauth(post_auth_action)

\* impl From<Option<PostAuthAction>> for Register
Register_from(post_auth_action) == Register(post_auth_action)

\* The interactive endpoint value a request for `url` is handled with.
EndpointOf(url) ==
    LET paa == DecodeOptional(UrlQuery(url))
    IN  CASE UrlPath(url) = <<"/", "login">> -> Login_from(paa)
          [] UrlPath(url) = <<"/", "reauth">> -> Reauth_from(paa)
          [] UrlPath(url) = <<"/", "register">> -> Register_from(paa)

\* ------------------------------------------------------------ the inputs

\* Grant ids: the extreme values, negative ids, zero and small ids.
GrantIds == {MinInt, MinInt + 1, -1, 0, 7, 42, MaxInt}

PostAuthActions == {ChangePassword} \cup {continue_grant(g) : g \in GrantIds}

InteractiveRoutes == {"Login", "Reauth", "Register"}

InteractivePaths == {<<"/", "login">>, <<"/", "reauth">>, <<"/", "register">>}

GrantPrefix == <<"next", "=", "continue_authorization_grant", "&", "data", "=">>

\* Queries whose `next` is unknown, whose `data` is missing, or whose `data`
\* is not the decimal form of an integer of the type.
MalformedQueries ==
    { <<"next", "=", "bogus">>,
      <<"next", "=", "continue_authorization_grant">>,
      GrantPrefix,
      GrantPrefix \o <<"abc">>,
      GrantPrefix \o <<"-">>,
      GrantPrefix \o <<"+", "7">>,
      GrantPrefix \o <<"7", "x">>,
      GrantPrefix \o <<"1", ".", "5">>,
      GrantPrefix \o Digits(MaxInt + 1),
      GrantPrefix \o <<"-">> \o Digits(MaxInt + 2) }

\* Queries that carry no continuation at all.
AbsentQueries == { <<>>, <<"data", "=", "7">> }

\* Other spellings a client can send of a continuation.
OtherQueries ==
    { <<"data", "=", "7", "&", "next", "=", "continue_authorization_grant">>,
      GrantPrefix \o <<"%2B", "7">>,
      GrantPrefix \o <<"0", "0", "7">>,
      <<"next", "=", "change_password", "&", "data", "=", "abc">>,
      <<"next", "=", "change_password">>,
      GrantPrefix \o <<"-", "1">>,
      GrantPrefix \o Digits(MaxInt) }

DirectUrls ==
    InteractivePaths
    \cup { p \o <<"?">> \o q :
             p \in InteractivePaths,
             q \in (MalformedQueries \cup AbsentQueries \cup OtherQueries) \ {<<>>} }

\* Verification codes: every string of at most MaxCodeLen tokens over a
\* letter and the characters that carry structure in a URL.
CodeTokens == {"a", "/", "?", "#"}

RECURSIVE CodesOfLen(_)
CodesOfLen(n) ==
    IF n = 0 THEN {<<>>}
    ELSE {Append(c, t) : c \in CodesOfLen(n - 1), t \in CodeTokens}

Codes == UNION {CodesOfLen(n) : n \in 1..MaxCodeLen}

ParameterizedRoutes ==
    {VerifyEmail(c) : c \in Codes}
    \cup {ContinueAuthorizationGrant(g) : g \in GrantIds}
    \cup {Consent(g) : g \in GrantIds}

\* ---------------------------------------------------------------- state

VARIABLES
    pc,               \* where the browser's flow stands
    pending,          \* the continuation the suspending endpoint asked for
    location,         \* the URL of the last redirect the server answered with
    request,          \* the URL of the request at the interactive endpoint
    endpoint,         \* the Login, Reauth or Register value of that request
    gate,             \* the last freshness decision of a gating endpoint
    rendered,         \* the last parameterized route rendered, with its path
    sessions,         \* the browser sessions of the repository, by id
    authentications,  \* the authentication events of each session, oldest first
    cookie,           \* the id of the browser's session, 0 when it has none
    now,              \* the clock
    q_pc,             \* where the GraphQL request stands
    snapshot,         \* the browser session the request loaded
    report,           \* the state resolved in the request, with its session
    seen_finished,    \* the ids of the sessions a request has reported Finished
    txn,              \* the request's repository transaction
    terminal,         \* the commits and cancels the request called on it
    lookup,           \* what the repository answered to get_last_authentication
    result,           \* what last_authentication returned
    w_pc,             \* where the worker command stands in run
    w_env,            \* what each fallible call of the command will answer
    w_log,            \* the calls of the command that went through, in order
    w_held,           \* the values the command holds
    w_result          \* what the worker command returned

flowVars == <<pc, pending, location, request, endpoint, gate, rendered>>

repoVars == <<sessions, authentications, cookie>>

queryVars == <<q_pc, snapshot, report, seen_finished, txn, terminal, lookup, result>>

workerVars == <<w_pc, w_env, w_log, w_held, w_result>>

vars == <<flowVars, repoVars, now, queryVars, workerVars>>

Init ==
    /\ pc = "idle"
    /\ pending = None
    /\ location = <<>>
    /\ request = <<>>
    /\ endpoint = None
    /\ gate = None
    /\ rendered = None
    /\ sessions = <<>>
    /\ authentications = <<>>
    /\ cookie = 0
    /\ now = 0
    /\ q_pc = "idle"
    /\ snapshot = None
    /\ report = None
    /\ seen_finished = {}
    /\ txn = "none"
    /\ terminal = 0
    /\ lookup = None
    /\ result = None
    /\ w_pc = "idle"
    /\ w_env = None
    /\ w_log = <<>>
    /\ w_held = {}
    /\ w_result = None

\* ------------------------------------------- sessions and authentications

\* A browser session as created: not finished.
NewSession(id, at) == [id |-> id, created_at |-> at, finished_at |-> None]

\* An authentication event of a session.
NewAuthentication(id, at) == [id |-> id, created_at |-> at]

\* The repository's most recent authentication event of a session.
GetLastAuthentication(id) ==
    IF Len(authentications[id]) = 0 THEN None
    ELSE Some(authentications[id][Len(authentications[id])])

\* A freshness that takes a session without an event for fresh.
Fresh_WithoutEvent(last, at, max_age) ==
    \/ last.tag = "None"
    \/ at - last.value.created_at <= max_age

\* A session is fresh when its most recent authentication event is no older
\* than max_age; without an event it is not fresh.
Fresh(last, at, max_age) ==
    /\ last.tag = "Some"
    /\ at - last.value.created_at <= max_age

\* A successful login or registration: a new session with its first
\* authentication event, which becomes the browser's session.
StartSession ==
    LET id == Len(sessions) + 1
    IN  /\ Len(sessions) < MaxSessions
        /\ sessions' = Append(sessions, NewSession(id, now))
        /\ authentications' = Append(authentications, <<NewAuthentication(1, now)>>)
        /\ cookie' = id

\* A successful re-authentication: one more event on the browser's session.
RecordAuthentication ==
    /\ cookie # 0
    /\ Len(authentications[cookie]) < MaxAuths
    /\ authentications' =
          [authentications EXCEPT
             ![cookie] = Append(@, NewAuthentication(Len(@) + 1, now))]
    /\ UNCHANGED <<sessions, cookie>>

\* Logout: finished_at of the browser's session is set, and the browser
\* has no session any more.
FinishSession ==
    /\ cookie # 0
    /\ sessions' = [sessions EXCEPT ![cookie].finished_at = Some(now)]
    /\ cookie' = 0
    /\ UNCHANGED authentications

\* ------------------------------------------------- the browser's requests

\* GET /authorize for pending grant g by a browser without a session: the
\* login is required first.
AuthorizeRequiresLogin(g) ==
    /\ pc = "idle"
    /\ cookie = 0
    /\ pending' = Some(continue_grant(g))
    /\ location' = Go(Login_and_continue_grant(g))
    /\ pc' = "redirected"
    /\ UNCHANGED <<request, endpoint, gate, rendered, repoVars, now>>
    /\ UNCHANGED <<queryVars, workerVars>>

\* GET /account/password by the browser's session, gated on freshness.
AccountPasswordRequest(max_age) ==
    /\ pc = "idle"
    /\ cookie # 0
    /\ LET last == GetLastAuthentication(cookie)
           fresh == Fresh(last, now, max_age)
       IN  /\ gate' = Some([session |-> cookie, last |-> last, at |-> now,
                            max_age |-> max_age, fresh |-> fresh])
           /\ IF fresh
              THEN /\ pc' = "served"
                   /\ UNCHANGED <<pending, location>>
              ELSE /\ pending' = Some(ChangePassword)
                   /\ location' = Go(Reauth_and_then(ChangePassword))
                   /\ pc' = "redirected"
    /\ UNCHANGED <<request, endpoint, rendered, repoVars, now>>
    /\ UNCHANGED <<queryVars, workerVars>>

\* An endpoint suspends `action` behind the interactive step `route`.
Suspend(route, action) ==
    /\ pc = "idle"
    /\ pending' = Some(action)
    /\ location' =
          IF action.next = "continue_authorization_grant"
          THEN CASE route = "Login" -> Go(Login_and_continue_grant(action.data))
                 [] route = "Reauth" -> Go(Reauth_and_continue_grant(action.data))
                 [] route = "Register" -> Go(Register_and_continue_grant(action.data))
          ELSE CASE route = "Login" -> Go(Login_and_then(action))
                 [] route = "Reauth" -> Go(Reauth_and_then(action))
                 [] route = "Register" -> Go(Register_and_then(action))
    /\ pc' = "redirected"
    /\ UNCHANGED <<request, endpoint, gate, rendered, repoVars, now>>
    /\ UNCHANGED <<queryVars, workerVars>>

\* The browser follows the redirect to the interactive endpoint.
FollowRedirect ==
    /\ pc = "redirected"
    /\ request' = location
    /\ endpoint' = Some(EndpointOf(location))
    /\ pc' = "at_step"
    /\ UNCHANGED <<pending, location, gate, rendered, repoVars, now>>
    /\ UNCHANGED <<queryVars, workerVars>>

\* A request to an interactive endpoint with a URL the client chose.
DirectRequest(url) ==
    /\ pc = "idle"
    /\ request' = url
    /\ endpoint' = Some(EndpointOf(url))
    /\ pc' = "at_step"
    /\ UNCHANGED <<pending, location, gate, rendered, repoVars, now>>
    /\ UNCHANGED <<queryVars, workerVars>>

\* The interactive step completes and the endpoint redirects with go_next.
\* A login or registration by a browser that has a session completes at once.
CompleteStep ==
    /\ pc = "at_step"
    /\ LET self == endpoint.value
       IN  /\ CASE self.route = "Reauth" -> RecordAuthentication
                [] self.route \in {"Login", "Register"} ->
                     IF cookie # 0 THEN UNCHANGED repoVars ELSE StartSession
           /\ location' = GoNext(self)
    /\ pc' = "done"
    /\ UNCHANGED <<pending, request, endpoint, gate, rendered, now>>
    /\ UNCHANGED <<queryVars, workerVars>>

\* A link to a parameterized route is built.
RenderRoute(r) ==
    /\ pc = "idle"
    /\ rendered' = Some([route |-> r, path |-> Path(r)])
    /\ pc' = "rendered"
    /\ UNCHANGED <<pending, location, request, endpoint, gate, repoVars, now>>
    /\ UNCHANGED <<queryVars, workerVars>>

\* The request is over: the browser landed on the destination, or left.
Finish ==
    /\ pc # "idle"
    /\ pc' = "idle"
    /\ pending' = None
    /\ location' = <<>>
    /\ request' = <<>>
    /\ endpoint' = None
    /\ gate' = None
    /\ rendered' = None
    /\ UNCHANGED <<repoVars, now>>
    /\ UNCHANGED <<queryVars, workerVars>>

\* A session created by another mechanism: it has no authentication event.
ExternalSession ==
    /\ pc = "idle"
    /\ cookie = 0
    /\ Len(sessions) < MaxSessions
    /\ sessions' = Append(sessions, NewSession(Len(sessions) + 1, now))
    /\ authentications' = Append(authentications, <<>>)
    /\ cookie' = Len(sessions) + 1
    /\ UNCHANGED <<flowVars, now>>
    /\ UNCHANGED <<queryVars, workerVars>>

\* POST /logout
Logout ==
    /\ pc = "idle"
    /\ FinishSession
    /\ UNCHANGED <<flowVars, now>>
    /\ UNCHANGED <<queryVars, workerVars>>

Tick ==
    /\ now < MaxTime
    /\ now' = now + 1
    /\ UNCHANGED <<flowVars, repoVars>>
    /\ UNCHANGED <<queryVars, workerVars>>

\* ------------------------------------------------- the GraphQL read layer

\* The Authentication node wrapping a data-model authentication.
Authentication(a) == [authentication |-> a]

\* A state derived with the test upside down.
state_Inverted(self) ==
    IF self.finished_at.tag = "None" THEN "Finished" ELSE "Active"

\* BrowserSession::state
state(self) ==
    IF self.finished_at.tag = "Some" THEN "Finished" ELSE "Active"

\* A mapping that puts a default event where the repository had none.
MapAuthentication_OrDefault(last_authentication) ==
    IF last_authentication.tag = "Some"
    THEN Some(Authentication(last_authentication.value))
    ELSE Some(Authentication([id |-> 0, created_at |-> 0]))

\* last_authentication.map(Authentication)
MapAuthentication(last_authentication) ==
    IF last_authentication.tag = "Some"
    THEN Some(Authentication(last_authentication.value))
    ELSE None

\* A browser session node is loaded from the repository for a request.
LoadSession(id) ==
    /\ q_pc = "idle"
    /\ snapshot' = Some(sessions[id])
    /\ q_pc' = "loaded"
    /\ UNCHANGED <<report, seen_finished, txn, terminal, lookup, result>>
    /\ UNCHANGED <<flowVars, repoVars, now, workerVars>>

\* The `state` field is resolved on the loaded session.
ResolveState ==
    /\ q_pc = "loaded"
    /\ report' = Some([session |-> snapshot.value, state |-> state(snapshot.value)])
    /\ seen_finished' =
          IF state(snapshot.value) = "Finished"
          THEN seen_finished \cup {snapshot.value.id}
          ELSE seen_finished
    /\ UNCHANGED <<q_pc, snapshot, txn, terminal, lookup, result>>
    /\ UNCHANGED <<flowVars, repoVars, now, workerVars>>

\* last_authentication: state.repository().await?
AcquireRepository(ok) ==
    /\ q_pc = "loaded"
    /\ IF ok
       THEN /\ txn' = "open"
            /\ q_pc' = "acquired"
            /\ UNCHANGED result
       ELSE /\ result' = Some(Err("repository"))
            /\ q_pc' = "returned"
            /\ UNCHANGED txn
    /\ UNCHANGED <<snapshot, report, seen_finished, terminal, lookup>>
    /\ UNCHANGED <<flowVars, repoVars, now, workerVars>>

\* last_authentication: get_last_authentication(&self.0).await?  On an
\* error the function returns at once and the repository handle goes out of
\* scope: no cancel is called on it.
LookupLastAuthentication(ok) ==
    /\ q_pc = "acquired"
    /\ IF ok
       THEN /\ lookup' = Some(Ok(GetLastAuthentication(snapshot.value.id)))
            /\ q_pc' = "looked_up"
            /\ UNCHANGED <<txn, result>>
       ELSE /\ lookup' = Some(Err("lookup"))
            /\ result' = Some(Err("lookup"))
            /\ txn' = "dropped"
            /\ q_pc' = "returned"
    /\ UNCHANGED <<snapshot, report, seen_finished, terminal>>
    /\ UNCHANGED <<flowVars, repoVars, now, workerVars>>

\* last_authentication: repo.cancel().await? and the Ok(..) that follows.
CancelAndReturn(ok) ==
    /\ q_pc = "looked_up"
    /\ terminal' = terminal + 1
    /\ IF ok
       THEN /\ txn' = "cancelled"
            /\ result' = Some(Ok(MapAuthentication(lookup.value.value)))
       ELSE /\ txn' = "cancel_failed"
            /\ result' = Some(Err("cancel"))
    /\ q_pc' = "returned"
    /\ UNCHANGED <<snapshot, report, seen_finished, lookup>>
    /\ UNCHANGED <<flowVars, repoVars, now, workerVars>>

\* The GraphQL request is answered.
EndRequest ==
    /\ q_pc \in {"loaded", "returned"}
    /\ q_pc' = "idle"
    /\ snapshot' = None
    /\ txn' = "none"
    /\ terminal' = 0
    /\ lookup' = None
    /\ result' = None
    /\ report' = None
    /\ UNCHANGED seen_finished
    /\ UNCHANGED <<flowVars, repoVars, now, workerVars>>

\* A login or registration succeeded, as the repository sees it.
SessionStarted ==
    /\ pc = "idle"
    /\ cookie = 0
    /\ StartSession
    /\ UNCHANGED <<flowVars, now, queryVars, workerVars>>

\* A re-authentication succeeded, as the repository sees it.
Reauthenticated ==
    /\ pc = "idle"
    /\ RecordAuthentication
    /\ UNCHANGED <<flowVars, now, queryVars, workerVars>>

\* ----------------------------------------------------- the worker command

\* The fallible calls of the worker command before the task scheduler, in
\* the order run makes them.
SetupCalls ==
    <<"load_config", "database_from_config", "templates_from_config",
      "mailer_from_config", "test_connection">>

\* Every fallible call of the worker command.
WorkerCalls == {SetupCalls[i] : i \in 1..Len(SetupCalls)} \cup {"run"}

\* What makes a call fail.
Causes == {"io", "invalid"}

\* The worlds the command can be run in: for each call, no failure or the
\* cause of its failure.
WorkerEnvs == [WorkerCalls -> {None} \cup {Some(c) : c \in Causes}]

\* What a call answers in the command's world.
Outcome(call) ==
    IF w_env[call] = None THEN Ok(call)
    ELSE Err([call |-> call, cause |-> w_env[call].value])

\* A call followed by the question mark: on Ok the command goes on with the
\* value, on Err it returns the error and drops what it holds.
Try(call, next, value) ==
    IF Outcome(call).tag = "Ok"
    THEN /\ w_pc' = next
         /\ w_log' = Append(w_log, call)
         /\ w_held' = w_held \cup {value}
         /\ UNCHANGED <<w_env, w_result>>
    ELSE /\ w_pc' = "returned"
         /\ w_result' = Some(Outcome(call))
         /\ w_held' = {}
         /\ UNCHANGED <<w_env, w_log>>

\* The worker command is run: the span of its start-up is entered.
RunCommand(env) ==
    /\ w_pc = "idle"
    /\ w_pc' = "load_config"
    /\ w_env' = env
    /\ w_held' = {"span"}
    /\ UNCHANGED <<w_log, w_result>>
    /\ UNCHANGED <<flowVars, repoVars, now, queryVars>>

\* root.load_config()?
LoadConfig ==
    /\ w_pc = "load_config"
    /\ Try("load_config", "database_from_config", "config")
    /\ UNCHANGED <<flowVars, repoVars, now, queryVars>>

\* database_from_config(&config.database).await?
DatabaseFromConfig ==
    /\ w_pc = "database_from_config"
    /\ Try("database_from_config", "url_builder", "pool")
    /\ UNCHANGED <<flowVars, repoVars, now, queryVars>>

\* UrlBuilder::new(config.http.public_base.clone())
NewUrlBuilder ==
    /\ w_pc = "url_builder"
    /\ w_pc' = "templates_from_config"
    /\ w_held' = w_held \cup {"url_builder"}
    /\ UNCHANGED <<w_env, w_log, w_result>>
    /\ UNCHANGED <<flowVars, repoVars, now, queryVars>>

\* templates_from_config(&config.templates, &url_builder).await?
TemplatesFromConfig ==
    /\ w_pc = "templates_from_config"
    /\ Try("templates_from_config", "mailer_from_config", "templates")
    /\ UNCHANGED <<flowVars, repoVars, now, queryVars>>

\* mailer_from_config(&config.email, &templates).await?
MailerFromConfig ==
    /\ w_pc = "mailer_from_config"
    /\ Try("mailer_from_config", "test_connection", "mailer")
    /\ UNCHANGED <<flowVars, repoVars, now, queryVars>>

\* The connection test with its error ignored.
TestConnection_Unchecked ==
    /\ w_pc = "test_connection"
    /\ w_pc' = "drop_config"
    /\ w_log' = IF Outcome("test_connection").tag = "Ok"
                THEN Append(w_log, "test_connection") ELSE w_log
    /\ UNCHANGED <<w_env, w_held, w_result>>
    /\ UNCHANGED <<flowVars, repoVars, now, queryVars>>

\* mailer.test_connection().await?
TestConnection ==
    /\ w_pc = "test_connection"
    /\ Try("test_connection", "drop_config", "mailer")
    /\ UNCHANGED <<flowVars, repoVars, now, queryVars>>

\* drop(config)
DropConfig ==
    /\ w_pc = "drop_config"
    /\ w_pc' = "init"
    /\ w_held' = w_held \ {"config"}
    /\ UNCHANGED <<w_env, w_log, w_result>>
    /\ UNCHANGED <<flowVars, repoVars, now, queryVars>>

\* mas_tasks::init(&pool, &mailer): the task scheduler is initialised and
\* gives its monitor.
InitTasks ==
    /\ w_pc = "init"
    /\ w_pc' = "span_exit"
    /\ w_log' = Append(w_log, "init")
    /\ w_held' = w_held \cup {"monitor"}
    /\ UNCHANGED <<w_env, w_result>>
    /\ UNCHANGED <<flowVars, repoVars, now, queryVars>>

\* span.exit()
SpanExit ==
    /\ w_pc = "span_exit"
    /\ w_pc' = "monitor_run"
    /\ w_held' = w_held \ {"span"}
    /\ UNCHANGED <<w_env, w_log, w_result>>
    /\ UNCHANGED <<flowVars, repoVars, now, queryVars>>

\* monitor.run() is called: the monitor runs.
MonitorRun ==
    /\ w_pc = "monitor_run"
    /\ w_pc' = "running"
    /\ w_log' = Append(w_log, "run")
    /\ w_held' = w_held \ {"monitor"}
    /\ UNCHANGED <<w_env, w_result>>
    /\ UNCHANGED <<flowVars, repoVars, now, queryVars>>

\* monitor.run().await? answers, and the command returns: the monitor's
\* error, or Ok(()).
MonitorReturns ==
    /\ w_pc = "running"
    /\ w_pc' = "returned"
    /\ w_result' = Some(IF Outcome("run").tag = "Ok" THEN Ok("unit")
                        ELSE Outcome("run"))
    /\ w_held' = {}
    /\ UNCHANGED <<w_env, w_log>>
    /\ UNCHANGED <<flowVars, repoVars, now, queryVars>>

\* ------------------------------------------------------ specifications

\* The step-up flows of one browser: the authorization grant behind the
\* login, the password change behind the re-authentication.
Next ==
    \/ \E g \in GrantIds : AuthorizeRequiresLogin(g)
    \/ \E m \in 0..MaxTime : AccountPasswordRequest(m)
    \/ FollowRedirect
    \/ CompleteStep
    \/ Finish
    \/ ExternalSession
    \/ Logout
    \/ Tick

Spec == Init /\ [][Next]_vars

\* The routes and the continuation's encoding, on every input.
NextRoutes ==
    \/ \E route \in InteractiveRoutes, a \in PostAuthActions : Suspend(route, a)
    \/ FollowRedirect
    \/ \E url \in DirectUrls : DirectRequest(url)
    \/ CompleteStep
    \/ \E r \in ParameterizedRoutes : RenderRoute(r)
    \/ Finish

SpecRoutes == Init /\ [][NextRoutes]_vars

\* The sessions' lives and the GraphQL reads of their state.
NextSession ==
    \/ SessionStarted
    \/ Reauthenticated
    \/ ExternalSession
    \/ Logout
    \/ Tick
    \/ \E id \in 1..Len(sessions) : LoadSession(id)
    \/ ResolveState
    \/ EndRequest

SpecSession == Init /\ [][NextSession]_vars

\* The GraphQL reads of the last authentication, step by step, while
\* sessions start, re-authenticate and finish.
NextQuery ==
    \/ SessionStarted
    \/ Reauthenticated
    \/ ExternalSession
    \/ Logout
    \/ \E id \in 1..Len(sessions) : LoadSession(id)
    \/ \E ok \in BOOLEAN : AcquireRepository(ok)
    \/ \E ok \in BOOLEAN : LookupLastAuthentication(ok)
    \/ \E ok \in BOOLEAN : CancelAndReturn(ok)
    \/ EndRequest

SpecQuery == Init /\ [][NextQuery]_vars

\* One run of the worker command, in every world.
NextWorker ==
    \/ \E env \in WorkerEnvs : RunCommand(env)
    \/ LoadConfig
    \/ DatabaseFromConfig
    \/ NewUrlBuilder
    \/ TemplatesFromConfig
    \/ MailerFromConfig
    \/ TestConnection
    \/ DropConfig
    \/ InitTasks
    \/ SpanExit
    \/ MonitorRun
    \/ MonitorReturns

SpecWorker == Init /\ [][NextWorker]_vars

\* ------------------------------------------------------------ properties

\* The value of a string of decimal digits.
RECURSIVE DecimalValue(_)
DecimalValue(ds) ==
    IF ds = <<>> THEN 0
    ELSE 10 * DecimalValue(SubSeq(ds, 1, Len(ds) - 1)) + DigitValue(ds[Len(ds)])

\* s is the decimal form of n: digits without a leading zero, after a "-"
\* when n is negative, whose value is the magnitude of n.
IsDecimalOf(s, n) ==
    LET ds == IF n < 0 THEN Tail(s) ELSE s
    IN  /\ s # <<>>
        /\ (n < 0) = (Head(s) = "-")
        /\ ds # <<>>
        /\ \A i \in 1..Len(ds) : IsDigit(ds[i])
        /\ (Len(ds) > 1 => ds[1] # "0")
        /\ DecimalValue(ds) = (IF n < 0 THEN -n ELSE n)

\* url is `prefix` followed by the decimal form of n.
IsPrefixThenDecimal(url, prefix, n) ==
    /\ Len(url) > Len(prefix)
    /\ SubSeq(url, 1, Len(prefix)) = prefix
    /\ IsDecimalOf(SubSeq(url, Len(prefix) + 1, Len(url)), n)

\* The destination the dispatcher owes to a continuation.
IsDestinationOf(url, post_auth_action) ==
    IF post_auth_action.tag = "None" THEN url = <<"/">>
    ELSE IF post_auth_action.value.next = "change_password"
    THEN url = <<"/", "account", "/", "password">>
    ELSE IsPrefixThenDecimal(url, <<"/", "authorize", "/">>,
                             post_auth_action.value.data)

\* C1: when an interactive step has completed, on Login, Reauth or Register
\* alike, the redirect is decided by the carried continuation alone: "/"
\* without one, "/authorize/<g in decimal>" for the grant g (g = 42 gives
\* "/authorize/42"), "/account/password" for the password change.
C1_GoNextByContinuation ==
    pc = "done" =>
        /\ endpoint.value.route \in InteractiveRoutes
        /\ IsDestinationOf(location, endpoint.value.post_auth_action)
        /\ (endpoint.value.post_auth_action = Some(continue_grant(42))
              => location = <<"/", "authorize", "/", "4", "2">>)

C1_Witness ==
    /\ pc = "done"
    /\ endpoint.value.route = "Register"
    /\ endpoint.value.post_auth_action = Some(continue_grant(42))
    /\ location = <<"/", "authorize", "/", "4", "2">>

\* C2: a continuation that went into a redirect URL's query comes out of it
\* unchanged at the interactive endpoint, for the password change and for
\* every grant id, the negative and the extreme ones included.
C2_RoundTrip ==
    (pc \in {"at_step", "done"} /\ pending.tag = "Some") =>
        /\ request # <<>>
        /\ endpoint.value.post_auth_action = pending

C2_Witness ==
    /\ pc = "at_step"
    /\ pending = Some(continue_grant(MinInt))
    /\ UrlQuery(request) = Encode(continue_grant(MinInt))
    /\ endpoint.value.post_auth_action = Some(continue_grant(MinInt))

\* C6: a request whose query has an unknown `next`, no `data`, or a `data`
\* that is not a decimal integer of the type is handled as a request without
\* a continuation: the endpoint value carries none, and the step's redirect
\* is the index route.
C6_MalformedIsAbsent ==
    (pc \in {"at_step", "done"} /\ UrlQuery(request) \in MalformedQueries) =>
        /\ endpoint.tag = "Some"
        /\ endpoint.value.post_auth_action = None
        /\ (pc = "done" => location = <<"/">>)

C6_Witness ==
    /\ pc = "done"
    /\ request = <<"/", "reauth", "?">> \o GrantPrefix \o Digits(MaxInt + 1)
    /\ endpoint.value = Reauth(None)
    /\ location = <<"/">>

\* The number of tokens of s equal to c.
Count(s, c) == Cardinality({i \in 1..Len(s) : s[i] = c})

\* C7: the rendered path of a parameterized route is its prefix segment and
\* one parameter segment, whatever the parameter: two "/" and neither "?"
\* nor "#"; for a grant id it is the prefix and the id in decimal.
C7_PathStructure ==
    rendered.tag = "Some" =>
        LET r == rendered.value.route
            path == rendered.value.path
        IN  /\ Count(path, "/") = 2
            /\ Count(path, "?") = 0
            /\ Count(path, "#") = 0
            /\ (r.route = "ContinueAuthorizationGrant"
                  => IsPrefixThenDecimal(path, <<"/", "authorize", "/">>, r.id))
            /\ (r.route = "Consent"
                  => IsPrefixThenDecimal(path, <<"/", "consent", "/">>, r.id))

\* C3: a grant g suspended behind the login is redirected to
\* "/login?next=continue_authorization_grant&data=<g>", the login endpoint
\* decodes that URL to the Login value carrying g, and the completed login
\* redirects to "/authorize/<g>", the same g all along (g = 7 in the spec's
\* scenario).
C3_GrantContinuation ==
    \A g \in GrantIds :
        pending = Some(continue_grant(g)) =>
            /\ pc \in {"redirected", "at_step", "done"}
            /\ (pc \in {"redirected", "at_step"} =>
                    IsPrefixThenDecimal(location,
                                        <<"/", "login", "?">> \o GrantPrefix, g))
            /\ (pc \in {"redirected", "at_step"} /\ g = 7 =>
                    location = <<"/", "login", "?", "next", "=",
                                 "continue_authorization_grant", "&", "data", "=", "7">>)
            /\ (pc \in {"at_step", "done"} =>
                    endpoint.value = Login(Some(continue_grant(g))))
            /\ (pc = "at_step" => request = location)
            /\ (pc = "done" =>
                    IsPrefixThenDecimal(location, <<"/", "authorize", "/">>, g))
            /\ (pc = "done" /\ g = 7 => location = <<"/", "authorize", "/", "7">>)

C3_Witness ==
    /\ pc = "done"
    /\ pending = Some(continue_grant(7))
    /\ request = <<"/", "login", "?", "next", "=",
                   "continue_authorization_grant", "&", "data", "=", "7">>
    /\ location = <<"/", "authorize", "/", "7">>
    /\ cookie # 0

\* The gating endpoint decided on a session whose last authentication is
\* older than max_age.
GatedOnOldAuthentication ==
    /\ gate.tag = "Some"
    /\ gate.value.last.tag = "Some"
    /\ gate.value.at - gate.value.last.value.created_at > gate.value.max_age

\* C4: a request to /account/password by a session whose last authentication
\* is older than max_age is redirected to "/reauth?next=change_password",
\* the re-authentication endpoint decodes that URL to the Reauth value
\* carrying the password change, and the completed re-authentication
\* redirects to "/account/password" and nowhere else.
C4_PasswordStepUp ==
    GatedOnOldAuthentication =>
        /\ pc \in {"redirected", "at_step", "done"}
        /\ pending = Some(ChangePassword)
        /\ (pc \in {"redirected", "at_step"} =>
                location = <<"/", "reauth", "?", "next", "=", "change_password">>)
        /\ (pc \in {"at_step", "done"} =>
                /\ request = <<"/", "reauth", "?", "next", "=", "change_password">>
                /\ endpoint.value = Reauth(Some(ChangePassword)))
        /\ (pc = "done" => location = <<"/", "account", "/", "password">>)

C4_Witness ==
    /\ GatedOnOldAuthentication
    /\ pc = "done"
    /\ location = <<"/", "account", "/", "password">>
    /\ Len(authentications[gate.value.session]) = 2

\* What a gating decision owes to the session's most recent event.
GateDecision ==
    gate.tag = "Some" =>
        LET d == gate.value
        IN  /\ (pc \in {"served", "redirected"} =>
                    d.last = GetLastAuthentication(d.session))
            /\ (d.last.tag = "None" => ~d.fresh)
            /\ (d.last.tag = "Some" =>
                    /\ d.last.value.created_at <= d.at
                    /\ (d.at = d.last.value.created_at => d.fresh)
                    /\ (d.at < d.last.value.created_at + d.max_age => d.fresh)
                    /\ (d.at > d.last.value.created_at + d.max_age => ~d.fresh))
            /\ (d.fresh = (pc = "served"))
            /\ (~d.fresh =>
                    /\ pending = Some(ChangePassword)
                    /\ (pc = "redirected" => UrlPath(location) = <<"/", "reauth">>)
                    /\ (pc \in {"at_step", "done"} => endpoint.value.route = "Reauth"))

\* A session that is stale for some max_age is stale for it in the next
\* state too, unless an authentication event was recorded on it.
StaleStays ==
    \A id \in 1..Len(sessions) : \A m \in 0..MaxTime :
        (/\ ~Fresh(GetLastAuthentication(id), now, m)
         /\ authentications'[id] = authentications[id])
        => ~Fresh(GetLastAuthentication(id)', now', m)

\* C9: a gating decision follows the session's most recent authentication
\* event: without an event the session is not fresh and goes through
\* Reauth; with the event at T it is fresh at T and before T + max_age and
\* not fresh after T + max_age; a stale session stays stale until an
\* authentication event is recorded on it.
C9_Freshness == [](GateDecision) /\ [][StaleStays]_vars

C9_Witness ==
    /\ GatedOnOldAuthentication
    /\ ~gate.value.fresh
    /\ pc = "redirected"
    /\ location = <<"/", "reauth", "?", "next", "=", "change_password">>

\* What a resolved state owes to the session it was resolved on, and what a
\* session owes to a Finished it has reported.
StateDerivation ==
    /\ report.tag = "Some" =>
          /\ report.value.state \in {"Active", "Finished"}
          /\ (report.value.state = "Active")
                = (report.value.session.finished_at.tag = "None")
          /\ (report.value.state = "Finished")
                = (report.value.session.finished_at.tag = "Some")
          /\ (report.value.session.id \in seen_finished
                => report.value.state = "Finished")
    /\ \A id \in seen_finished : sessions[id].finished_at.tag = "Some"
    /\ \A id \in 1..Len(sessions) :
          sessions[id].finished_at.tag = "Some"
             => sessions[id].finished_at.value >= sessions[id].created_at

\* A step changes a session only by setting the finished_at it did not
\* have, which the logout of the browser's session does; a finished_at that
\* is set stays as it is.
OneWay ==
    \A id \in 1..Len(sessions) :
        /\ sessions[id].finished_at.tag = "Some" => sessions'[id] = sessions[id]
        /\ sessions'[id] # sessions[id] =>
              /\ sessions[id].finished_at.tag = "None"
              /\ sessions'[id] = [sessions[id] EXCEPT !.finished_at = Some(now)]
              /\ cookie = id
              /\ cookie' = 0

\* C8: a session reports Active exactly when its finished_at is absent and
\* Finished exactly when it is present; finished_at is set once, by logout,
\* and never cleared, so a session that has reported Finished does not
\* report Active afterwards.
C8_SessionState == [](StateDerivation) /\ [][OneWay]_vars

C8_Witness ==
    /\ report.tag = "Some"
    /\ report.value.state = "Finished"
    /\ report.value.session.finished_at.tag = "Some"
    /\ report.value.session.finished_at.value > report.value.session.created_at
    /\ report.value.session.id \in seen_finished

\* C5: when last_authentication has returned on a request that opened a
\* repository transaction, exactly one commit or cancel was called on the
\* transaction, and a failed lookup is returned only with the transaction
\* cancelled.
C5_TerminalActionOnEveryExit ==
    (q_pc = "returned" /\ txn # "none") =>
        /\ terminal = 1
        /\ (lookup = Some(Err("lookup")) => txn = "cancelled")

\* C10: what last_authentication returns is what the repository answered:
\* the session's event, wrapped, when it answered with one; none when it
\* answered that there is none; an error when the repository could not be
\* had, the lookup failed or the cancel failed, and then never a value.
C10_NeverFabricates ==
    q_pc = "returned" =>
        LET r == result.value
            failed == \/ lookup.tag = "None"
                      \/ lookup.value.tag = "Err"
                      \/ txn = "cancel_failed"
        IN  /\ result.tag = "Some"
            /\ r.tag \in {"Ok", "Err"}
            /\ (r.tag = "Err") = failed
            /\ r.tag = "Ok" =>
                  LET answer == lookup.value.value
                      events == authentications[snapshot.value.id]
                  IN  /\ txn = "cancelled"
                      /\ (answer.tag = "None" => r.value = None)
                      /\ (answer.tag = "Some" =>
                            /\ r.value = Some(Authentication(answer.value))
                            /\ \E i \in 1..Len(events) : events[i] = answer.value)

C10_Witness ==
    /\ q_pc = "returned"
    /\ result.tag = "Some"
    /\ result.value.tag = "Ok"
    /\ result.value.value.tag = "Some"
    /\ result.value.value.value.authentication.id = 2
    /\ lookup = Some(Ok(Some(result.value.value.value.authentication)))

\* The place of a call in the log of the worker command, 0 when it is not
\* there.
LogIndex(call) ==
    IF \E i \in 1..Len(w_log) : w_log[i] = call
    THEN CHOOSE i \in 1..Len(w_log) : w_log[i] = call
    ELSE 0

\* The set-up calls went through one after the other, each once, before
\* the place i of the log.
SetupDoneBefore(i) ==
    /\ \A k \in 1..Len(SetupCalls) :
          /\ LogIndex(SetupCalls[k]) \in 1..(i - 1)
          /\ w_env[SetupCalls[k]] = None
    /\ \A k \in 1..(Len(SetupCalls) - 1) :
          LogIndex(SetupCalls[k]) < LogIndex(SetupCalls[k + 1])

\* The set-up calls that fail in the command's world, by their place in
\* the order.
FailingSetup == {k \in 1..Len(SetupCalls) : w_env[SetupCalls[k]] # None}

\* The first set-up call that fails.
FirstFailing ==
    SetupCalls[CHOOSE k \in FailingSetup : \A m \in FailingSetup : k <= m]

\* C11: in the worker command the task scheduler is initialised, and its
\* monitor run, only after the configuration was loaded, the database pool
\* connected, the templates loaded, the mailer built and the mailer's
\* connection tested, in this order and each with success, and the
\* scheduler is handed the pool and the mailer; when one of these calls
\* fails the scheduler is never initialised nor its monitor run, and the
\* command returns the error of that call.
C11_SchedulerAfterSetup ==
    w_env # None =>
        /\ \A i \in 1..Len(w_log) :
              /\ w_log[i] = "init" => SetupDoneBefore(i)
              /\ w_log[i] = "run" =>
                    /\ SetupDoneBefore(i)
                    /\ LogIndex("init") \in 1..(i - 1)
        /\ w_pc = "init" => {"pool", "mailer"} \subseteq w_held
        /\ FailingSetup # {} =>
              /\ LogIndex("init") = 0
              /\ LogIndex("run") = 0
              /\ w_pc \notin {"init", "span_exit", "monitor_run", "running"}
              /\ w_pc = "returned" =>
                    w_result = Some(Err([call |-> FirstFailing,
                                         cause |-> w_env[FirstFailing].value]))

\* The monitor runs, after the five set-up calls and the initialisation.
C11_Witness ==
    /\ w_pc = "running"
    /\ w_log = SetupCalls \o <<"init", "run">>

====
